---- MODULE Spec2Model ----
(***************************************************************************)
(* Off-chain glue of the reference wallet:                                 *)
(*   backend/wallet/services/offchain/utils.py  (evaluate_kyc_data)        *)
(*   backend/webapp/routes/offchain.py          (funds pull pre approval   *)
(*                                               routes, OffchainV2View)   *)
(* Optional values (Python None / a value) are sequences of length 0 / 1.  *)
(* Byte strings are sequences of 0..255, hex strings sequences of digits.  *)
(***************************************************************************)
EXTENDS Integers, Sequences, FiniteSets, TLC

VARIABLES
    versions,      \* the successive values of one payment command
    evalExc,       \* what the last evaluate_kyc_data call raised ("none": it returned)
    approvals,     \* the FundsPullPreApprovalCommand table, in creation order
    last,          \* the last approval-route request with its response (n: parity of
                   \* the number of requests so far)
    dispatched,    \* the last OffchainV2View request, engine call and response
    pc,            \* concurrent approve requests: position of each
    decision,      \* concurrent approve requests: the status each one asks for
    seen,          \* concurrent approve requests: the row status each one read
    rowLock,       \* concurrent approve requests: holder of the row transaction
    answer         \* concurrent approve requests: the response of each

vars == <<versions, evalExc, approvals, last, dispatched, pc, decision, seen, rowLock, answer>>

None == <<>>
Some(x) == <<x>>

(***************************************************************************)
(* Bounds                                                                  *)
(***************************************************************************)
MaxVersions == 3
MaxApprovals == 3
NumCallers == 3

(***************************************************************************)
(* Configuration and storage consulted by utils.py                         *)
(***************************************************************************)
hrp == "tdm"

compliance_private_key == 77

HexDigits == <<"0", "1", "2", "3", "4", "5", "6", "7", "8", "9", "a", "b", "c", "d", "e", "f">>

RECURSIVE hex(_)
hex(bytes) ==
    IF bytes = <<>> THEN <<>>
    ELSE <<HexDigits[(Head(bytes) \div 16) + 1], HexDigits[(Head(bytes) % 16) + 1]>>
         \o hex(Tail(bytes))

RECURSIVE ByteSum(_)
ByteSum(bytes) == IF bytes = <<>> THEN 0 ELSE Head(bytes) + ByteSum(Tail(bytes))

\* Ed25519PrivateKey.sign: deterministic, a fixed-length byte string
sign(key, msg) == <<(key + ByteSum(msg)) % 256, (key * 3 + Len(msg)) % 256>>

\* the sub-address table: hex of the sub-address -> Some(account id), None if unmapped
get_account_id_from_subaddr(subaddr_hex) ==
    IF subaddr_hex = <<"a", "b", "1", "2">> THEN Some("u1")
    ELSE IF subaddr_hex = <<"a", "b", "1", "3">> THEN Some("u2")
    ELSE IF subaddr_hex = <<"0", "0", "0", "7">> THEN Some("u3")
    ELSE None

\* kyc.get_user_kyc_info: the stored profile (a dict), None for a user without one
get_user_kyc_info(user_id) ==
    IF user_id = "u1" THEN
        Some([type |-> "individual", payload_version |-> 1,
              given_name |-> "Alice", surname |-> "Ames"])
    ELSE IF user_id = "u2" THEN
        Some([type |-> "individual", payload_version |-> 1, given_name |-> "Bob"])
    ELSE None

\* offchain.types.from_dict(dict, KycDataObject): a field per attribute, None when absent
from_dict(d) ==
    [type            |-> d.type,
     payload_version |-> d.payload_version,
     given_name      |-> IF "given_name" \in DOMAIN d THEN Some(d.given_name) ELSE None,
     surname         |-> IF "surname" \in DOMAIN d THEN Some(d.surname) ELSE None]

\* [exc, value]
user_kyc_data(user_id) ==
    IF user_id = None \/ get_user_kyc_info(user_id[1]) = None
    THEN [exc |-> "UserNotFound", value |-> None]
    ELSE [exc |-> "none", value |-> Some(from_dict(get_user_kyc_info(user_id[1])[1]))]

(***************************************************************************)
(* offchain.PaymentCommand, as the evaluator uses it                       *)
(***************************************************************************)
ReadyForSettlement == "ready_for_settlement"

is_receiver(command) == command.my_actor_address = command.payment.receiver.address

my_actor_obj(command) ==
    IF is_receiver(command) THEN command.payment.receiver ELSE command.payment.sender

\* new_command(recipient_signature=None, kyc_data=None, status=None): a copy of the
\* command in which the given fields replace the old ones
new_command(command, recipient_signature, kyc_data, status) ==
    LET actor == my_actor_obj(command)
        new_actor == [actor EXCEPT
                        !.kyc_data = IF kyc_data # None THEN kyc_data ELSE @,
                        !.status = IF status # None THEN [status |-> status[1]] ELSE @]
        payment == command.payment
        signed == [payment EXCEPT
                     !.recipient_signature =
                         IF recipient_signature # None THEN recipient_signature ELSE @]
        new_payment == IF is_receiver(command)
                       THEN [signed EXCEPT !.receiver = new_actor]
                       ELSE [signed EXCEPT !.sender = new_actor]
    IN  [command EXCEPT !.payment = new_payment]

\* the canonical travel-rule message: reference id, sender address and amount
travel_rule_metadata_signature_message(command, prefix) ==
    <<command.payment.reference_id, command.payment.sender.address.addr,
      command.payment.action.amount % 256, Len(prefix)>>

\* identifier.decode_account under the prefix: [exc, value = Optional sub-address bytes]
receiver_subaddress(command, prefix) ==
    IF command.payment.receiver.address.hrp # prefix
    THEN [exc |-> "ValueError", value |-> None]
    ELSE [exc |-> "none", value |-> command.payment.receiver.address.sub]

(***************************************************************************)
(* utils.py                                                                *)
(***************************************************************************)
\* the receiver branch with the signature left out of new_command
send_kyc_data_unsigned(command) ==
    LET sub == receiver_subaddress(command, hrp)
    IN  IF sub.exc # "none" THEN [exc |-> sub.exc, command |-> command]
        ELSE IF sub.value = None THEN [exc |-> "AttributeError", command |-> command]
        ELSE LET user_id == get_account_id_from_subaddr(hex(sub.value[1]))
                 kyc == user_kyc_data(user_id)
             IN  IF kyc.exc # "none" THEN [exc |-> kyc.exc, command |-> command]
                 ELSE [exc |-> "none",
                       command |-> new_command(command, None, kyc.value,
                                               Some(ReadyForSettlement))]

\* [exc, command]: what the call raises, or the command it returns
_send_kyc_data_and_recipient_signature(command) ==
    LET sig_msg == travel_rule_metadata_signature_message(command, hrp)
        sub == receiver_subaddress(command, hrp)
    IN  IF sub.exc # "none" THEN [exc |-> sub.exc, command |-> command]
        ELSE IF sub.value = None THEN [exc |-> "AttributeError", command |-> command]
        ELSE LET user_id == get_account_id_from_subaddr(hex(sub.value[1]))
                 kyc == user_kyc_data(user_id)
             IN  IF kyc.exc # "none" THEN [exc |-> kyc.exc, command |-> command]
                 ELSE [exc |-> "none",
                       command |-> new_command(
                           command,
                           Some(hex(sign(compliance_private_key, sig_msg))),
                           kyc.value,
                           Some(ReadyForSettlement))]

\* the role test inverted
evaluate_kyc_data_inverted(command) ==
    IF ~is_receiver(command)
    THEN _send_kyc_data_and_recipient_signature(command)
    ELSE [exc |-> "none", command |-> new_command(command, None, None, Some(ReadyForSettlement))]

\* the sender branch answering with the wrong status
evaluate_kyc_data_needs_kyc(command) ==
    IF is_receiver(command)
    THEN _send_kyc_data_and_recipient_signature(command)
    ELSE [exc |-> "none", command |-> new_command(command, None, None, Some("needs_kyc_data"))]

evaluate_kyc_data(command) ==
    IF is_receiver(command)
    THEN _send_kyc_data_and_recipient_signature(command)
    ELSE [exc |-> "none", command |-> new_command(command, None, None, Some(ReadyForSettlement))]

(***************************************************************************)
(* The payment commands the evaluator is given                             *)
(***************************************************************************)
LocalSubs == {Some(<<171, 18>>), Some(<<171, 19>>), Some(<<0, 7>>), Some(<<255, 255>>), None}

LocalAddresses ==
    {[hrp |-> hrp, addr |-> 10, sub |-> s] : s \in LocalSubs}
    \cup {[hrp |-> "dm", addr |-> 10, sub |-> Some(<<171, 18>>)]}

RemoteAddresses == {[hrp |-> hrp, addr |-> 20, sub |-> Some(<<1, 2>>)]}

Statuses == {"none", "needs_kyc_data", ReadyForSettlement}

OldKyc == [type |-> "individual", payload_version |-> 1,
           given_name |-> Some("Zed"), surname |-> None]

Actors(addresses) ==
    [address : addresses,
     status : [status : Statuses],
     kyc_data : {None, Some(OldKyc)},
     metadata : {None},
     additional_kyc_data : {None}]

Payments(senders, receivers) ==
    [reference_id : {5},
     sender : Actors(senders),
     receiver : Actors(receivers),
     action : {[amount |-> 100, currency |-> "XUS", action |-> "charge", timestamp |-> 1]},
     original_payment_reference_id : {None},
     recipient_signature : {None, Some(<<"0", "1">>)},
     description : {None, Some("rent")}]

\* the local party is one of the two actors, the other VASP is the other one
Commands ==
    {c \in [my_actor_address : LocalAddresses,
            inbound : BOOLEAN,
            cid : {"cid1"},
            payment : Payments(LocalAddresses, RemoteAddresses)
                      \cup Payments(RemoteAddresses, LocalAddresses)] :
        c.my_actor_address \in {c.payment.sender.address, c.payment.receiver.address}}

InitEval ==
    /\ \E c \in Commands : versions = <<c>>
    /\ evalExc = "none"
    /\ approvals = <<>>
    /\ last = [op |-> "none", n |-> 0]
    /\ dispatched = [op |-> "none"]
    /\ pc = <<>>
    /\ decision = <<>>
    /\ seen = <<>>
    /\ rowLock = 0
    /\ answer = <<>>

\* the protocol engine calls evaluate_kyc_data on the current version of the command
Evaluate ==
    /\ Len(versions) < MaxVersions
    /\ LET r == evaluate_kyc_data(versions[Len(versions)])
       IN  /\ evalExc' = r.exc
           /\ versions' = IF r.exc = "none" THEN Append(versions, r.command) ELSE versions
    /\ UNCHANGED <<approvals, last, dispatched, pc, decision, seen, rowLock, answer>>

NextEval == Evaluate

SpecEval == InitEval /\ [][NextEval]_vars

(***************************************************************************)
(* Properties of the command evaluator                                     *)
(***************************************************************************)
CommandStatus(command) == my_actor_obj(command).status.status

\* the account a receiver command's sub-address resolves to (None: it does not)
ResolvedAccount(command) ==
    IF command.payment.receiver.address.hrp # hrp
       \/ command.payment.receiver.address.sub = None
    THEN None
    ELSE get_account_id_from_subaddr(hex(command.payment.receiver.address.sub[1]))

HasProfile(command) ==
    /\ ResolvedAccount(command) # None
    /\ get_user_kyc_info(ResolvedAccount(command)[1]) # None

\* the stored profile and the KYC object carry the same values
SameProfile(profile, kyc) ==
    /\ kyc.type = profile.type
    /\ kyc.payload_version = profile.payload_version
    /\ \A f \in {"given_name", "surname"} :
          IF f \in DOMAIN profile THEN kyc[f] = Some(profile[f]) ELSE kyc[f] = None

ReceiverResult(in, out) ==
    /\ out.payment.recipient_signature # None
    /\ Len(out.payment.recipient_signature[1]) > 0
    /\ out.payment.recipient_signature[1]
         = hex(sign(compliance_private_key, travel_rule_metadata_signature_message(in, hrp)))
    /\ HasProfile(in)
    /\ out.payment.receiver.kyc_data # None
    /\ SameProfile(get_user_kyc_info(ResolvedAccount(in)[1])[1], out.payment.receiver.kyc_data[1])
    /\ out.payment.receiver.status.status = ReadyForSettlement
    /\ out.my_actor_address = in.my_actor_address
    /\ out.inbound = in.inbound
    /\ out.cid = in.cid
    /\ out.payment.reference_id = in.payment.reference_id
    /\ out.payment.sender = in.payment.sender
    /\ out.payment.action = in.payment.action
    /\ out.payment.original_payment_reference_id = in.payment.original_payment_reference_id
    /\ out.payment.description = in.payment.description
    /\ out.payment.receiver.address = in.payment.receiver.address
    /\ out.payment.receiver.metadata = in.payment.receiver.metadata
    /\ out.payment.receiver.additional_kyc_data = in.payment.receiver.additional_kyc_data

\* C1: whenever evaluate_kyc_data is applied to a command in which the local party
\* is the receiver, the command it returns carries a non-empty recipient_signature
\* (the hex signature of the travel-rule message under the compliance key), the
\* KYC profile of the account the receiver sub-address resolves to, and status
\* ready_for_settlement, every other field being the input's; and it returns such
\* a command whenever the sub-address resolves to an account with a profile.
C1_ReceiverEvaluate ==
    /\ \A i \in 1..(Len(versions) - 1) :
          is_receiver(versions[i]) => ReceiverResult(versions[i], versions[i + 1])
    /\ evalExc # "none" =>
          /\ is_receiver(versions[Len(versions)])
          /\ ~HasProfile(versions[Len(versions)])

\* Scenario A: sub-address 0xAB12 is mapped to u1, whose profile is attached
C1_Witness ==
    /\ Len(versions) >= 2
    /\ is_receiver(versions[1])
    /\ versions[1].payment.receiver.address.sub = Some(<<171, 18>>)
    /\ versions[1].payment.receiver.status.status = "needs_kyc_data"
    /\ versions[1].payment.recipient_signature = None
    /\ versions[2].payment.receiver.kyc_data # None
    /\ versions[2].payment.receiver.kyc_data[1].given_name = Some("Alice")

\* C2: whenever evaluate_kyc_data is applied to a command in which the local party
\* is the sender, it returns (no lookup, KYC fetch or signing can make it fail) a
\* command equal to the input except that the status is ready_for_settlement.
C2_SenderEvaluate ==
    /\ \A i \in 1..(Len(versions) - 1) :
          ~is_receiver(versions[i]) =>
              versions[i + 1] =
                  [versions[i] EXCEPT !.payment.sender.status.status = ReadyForSettlement]
    /\ evalExc # "none" => is_receiver(versions[Len(versions)])

C2_Witness ==
    /\ Len(versions) >= 2
    /\ ~is_receiver(versions[1])
    /\ versions[1].payment.sender.status.status = "needs_kyc_data"
    /\ versions[1].payment.sender.address.sub = Some(<<255, 255>>)
    /\ versions[1].payment.recipient_signature = Some(<<"0", "1">>)
    /\ versions[2].payment.sender.status.status = ReadyForSettlement

\* C10: a step of the evaluator leaves every earlier version of the command as it
\* was, and a command whose status is ready_for_settlement is never followed by a
\* version with another status.
C10_StatusMonotonic ==
    [][/\ Len(versions') >= Len(versions)
       /\ \A i \in 1..Len(versions) : versions'[i] = versions[i]
       /\ CommandStatus(versions[Len(versions)]) = ReadyForSettlement
            => CommandStatus(versions'[Len(versions')]) = ReadyForSettlement]_vars

\* an already settled command evaluated twice, as sender and as receiver
C10_Witness ==
    /\ Len(versions) = 3
    /\ CommandStatus(versions[1]) = ReadyForSettlement
    /\ CommandStatus(versions[3]) = ReadyForSettlement

(***************************************************************************)
(* wallet.services.fund_pull_pre_approval, the service behind the routes   *)
(***************************************************************************)
Accounts == {42, 43}
ApprovalIds == {"appr-1", "appr-2"}

address_of(account_id) == <<"payer", account_id>>

\* position of the approval looked up by id, 0 when there is none
find(table, funds_pull_pre_approval_id) ==
    IF \E i \in 1..Len(table) : table[i].funds_pull_pre_approval_id = funds_pull_pre_approval_id
    THEN CHOOSE i \in 1..Len(table) :
            /\ table[i].funds_pull_pre_approval_id = funds_pull_pre_approval_id
            /\ \A j \in 1..(i - 1) :
                 table[j].funds_pull_pre_approval_id # funds_pull_pre_approval_id
    ELSE 0

\* approve with the state check and the decision check left out
approve_unchecked(table, funds_pull_pre_approval_id, status) ==
    LET i == find(table, funds_pull_pre_approval_id)
    IN  IF i = 0 THEN [exc |-> "FundsPullPreApprovalCommandNotFound", table |-> table]
        ELSE [exc |-> "none", table |-> [table EXCEPT ![i].status = status]]

\* [exc, table]: pending -> approved | rejected, nothing else
approve(table, funds_pull_pre_approval_id, status) ==
    LET i == find(table, funds_pull_pre_approval_id)
    IN  IF i = 0 THEN [exc |-> "FundsPullPreApprovalCommandNotFound", table |-> table]
        ELSE IF status \notin {"approved", "rejected"}
        THEN [exc |-> "InvalidDecision", table |-> table]
        ELSE IF table[i].status # "pending"
        THEN [exc |-> "InvalidStateTransition", table |-> table]
        ELSE [exc |-> "none", table |-> [table EXCEPT ![i].status = status]]

exists_for(table, account_id, funds_pull_pre_approval_id) ==
    \E i \in 1..Len(table) :
        /\ table[i].account_id = account_id
        /\ table[i].funds_pull_pre_approval_id = funds_pull_pre_approval_id

\* [exc, table]: a new approval, approved from the start
create_and_approve(table, account_id, biller_address, funds_pull_pre_approval_id, funds_pull_pre_approval_type, expiration_timestamp, max_cumulative_unit, max_cumulative_unit_value, max_cumulative_amount, max_cumulative_amount_currency, max_transaction_amount, max_transaction_amount_currency, description) ==
    IF exists_for(table, account_id, funds_pull_pre_approval_id)
    THEN [exc |-> "DuplicateApprovalId", table |-> table]
    ELSE [exc |-> "none",
          table |-> Append(table,
            [account_id |-> account_id,
             address |-> address_of(account_id),
             biller_address |-> biller_address,
             funds_pull_pre_approval_id |-> funds_pull_pre_approval_id,
             funds_pull_pre_approval_type |-> funds_pull_pre_approval_type,
             expiration_timestamp |-> expiration_timestamp,
             max_cumulative_unit |-> max_cumulative_unit,
             max_cumulative_unit_value |-> max_cumulative_unit_value,
             max_cumulative_amount |-> max_cumulative_amount,
             max_cumulative_amount_currency |-> max_cumulative_amount_currency,
             max_transaction_amount |-> max_transaction_amount,
             max_transaction_amount_currency |-> max_transaction_amount_currency,
             description |-> description,
             status |-> "approved"])]

\* the approvals of the account, in creation order
get_funds_pull_pre_approvals(table, account_id) ==
    SelectSeq(table, LAMBDA approval : approval.account_id = account_id)

\* the request of a biller, stored pending the payer's decision
IncomingApproval(account_id, funds_pull_pre_approval_id) ==
    [account_id |-> account_id,
     address |-> address_of(account_id),
     biller_address |-> "lp789",
     funds_pull_pre_approval_id |-> funds_pull_pre_approval_id,
     funds_pull_pre_approval_type |-> "consent",
     expiration_timestamp |-> 1800000000,
     max_cumulative_unit |-> "year",
     max_cumulative_unit_value |-> 3,
     max_cumulative_amount |-> 900,
     max_cumulative_amount_currency |-> "XUS",
     max_transaction_amount |-> 90,
     max_transaction_amount_currency |-> "XDX",
     description |-> "utilities",
     status |-> "pending"]

(***************************************************************************)
(* routes/offchain.py: the funds pull pre approval routes                  *)
(***************************************************************************)
create_command_response_object(approval) ==
    [address |-> approval.address,
     biller_address |-> approval.biller_address,
     funds_pull_pre_approval_id |-> approval.funds_pull_pre_approval_id,
     scope |->
        [type |-> approval.funds_pull_pre_approval_type,
         expiration_time |-> approval.expiration_timestamp,
         max_cumulative_amount |->
            [unit |-> approval.max_cumulative_unit,
             value |-> approval.max_cumulative_unit_value,
             max_amount |->
                [amount |-> approval.max_cumulative_amount,
                 currency |-> approval.max_cumulative_amount_currency]],
         max_transaction_amount |->
            [amount |-> approval.max_transaction_amount,
             currency |-> approval.max_transaction_amount_currency]],
     description |-> approval.description,
     status |-> approval.status]

RECURSIVE response_objects(_)
response_objects(seq) ==
    IF seq = <<>> THEN <<>>
    ELSE <<create_command_response_object(Head(seq))>> \o response_objects(Tail(seq))

\* GetFundsPullPreApprovals.get
get(table, account_id) ==
    LET found == get_funds_pull_pre_approvals(table, account_id)
        response == response_objects(found)
    IN  [code |-> "OK", body |-> [funds_pull_pre_approvals |-> response]]

Unhandled(exc) == [code |-> "unhandled", body |-> exc]

\* put with every exception of the service swallowed
put_swallowing(funds_pull_pre_approval_id, params, exc) ==
    [code |-> "NO_CONTENT", body |-> "OK"]

\* put treating every exception but the not-found one as success
put_ignoring_conflicts(funds_pull_pre_approval_id, params, exc) ==
    IF exc = "FundsPullPreApprovalCommandNotFound"
    THEN [code |-> "NOT_FOUND", body |-> <<"not found", funds_pull_pre_approval_id>>]
    ELSE [code |-> "NO_CONTENT", body |-> "OK"]

\* put without the except clause
put_uncaught(funds_pull_pre_approval_id, params, exc) ==
    IF exc # "none" THEN Unhandled(exc) ELSE [code |-> "NO_CONTENT", body |-> "OK"]

\* UpdateFundPullPreApprovalStatus.put, exc being what fppa_service.approve raised
put(funds_pull_pre_approval_id, params, exc) ==
    IF exc = "FundsPullPreApprovalCommandNotFound"
    THEN [code |-> "NOT_FOUND", body |-> <<"not found", funds_pull_pre_approval_id>>]
    ELSE IF exc # "none" THEN Unhandled(exc)
    ELSE [code |-> "NO_CONTENT", body |-> "OK"]

\* post with the two amounts handed over in each other's place
post_amounts_swapped(table, account_id, params) ==
    LET scope == params.scope
        r == create_and_approve(table, account_id, params.biller_address,
                 params.funds_pull_pre_approval_id, scope.type, scope.expiration_timestamp,
                 scope.max_cumulative_amount.unit, scope.max_cumulative_amount.value,
                 scope.max_transaction_amount.amount,
                 scope.max_cumulative_amount.max_amount.currency,
                 scope.max_cumulative_amount.max_amount.amount,
                 scope.max_transaction_amount.currency,
                 params.description)
    IN  [table |-> r.table,
         response |-> IF r.exc # "none" THEN Unhandled(r.exc)
                      ELSE [code |-> "OK", body |-> "OK"]]

\* post answering OK whatever the service raised
post_swallowing(table, account_id, params) ==
    LET scope == params.scope
        r == create_and_approve(table, account_id, params.biller_address,
                 params.funds_pull_pre_approval_id, scope.type, scope.expiration_timestamp,
                 scope.max_cumulative_amount.unit, scope.max_cumulative_amount.value,
                 scope.max_cumulative_amount.max_amount.amount,
                 scope.max_cumulative_amount.max_amount.currency,
                 scope.max_transaction_amount.amount,
                 scope.max_transaction_amount.currency,
                 params.description)
    IN  [table |-> r.table, response |-> [code |-> "OK", body |-> "OK"]]

\* CreateAndApprove.post: [table, response]
post(table, account_id, params) ==
    LET biller_address == params.biller_address
        funds_pull_pre_approval_id == params.funds_pull_pre_approval_id
        scope == params.scope
        funds_pull_pre_approval_type == scope.type
        expiration_timestamp == scope.expiration_timestamp
        max_cumulative_amount_object == scope.max_cumulative_amount
        max_cumulative_unit == max_cumulative_amount_object.unit
        max_cumulative_unit_value == max_cumulative_amount_object.value
        max_cumulative_max_amount == max_cumulative_amount_object.max_amount
        max_cumulative_amount == max_cumulative_max_amount.amount
        max_cumulative_amount_currency == max_cumulative_max_amount.currency
        max_transaction_amount_object == scope.max_transaction_amount
        max_transaction_amount == max_transaction_amount_object.amount
        max_transaction_amount_currency == max_transaction_amount_object.currency
        description == params.description
        r == create_and_approve(table, account_id, biller_address,
                 funds_pull_pre_approval_id, funds_pull_pre_approval_type,
                 expiration_timestamp, max_cumulative_unit, max_cumulative_unit_value,
                 max_cumulative_amount, max_cumulative_amount_currency,
                 max_transaction_amount, max_transaction_amount_currency, description)
    IN  [table |-> r.table,
         response |-> IF r.exc # "none" THEN Unhandled(r.exc)
                      ELSE [code |-> "OK", body |-> "OK"]]

(***************************************************************************)
(* The requests of the approval workflow                                   *)
(***************************************************************************)
RequestedStatuses == {"approved", "rejected", "pending", "closed"}

ScopeB ==
    [type |-> "consent", expiration_timestamp |-> 2000000000,
     max_cumulative_amount |->
        [unit |-> "month", value |-> 1,
         max_amount |-> [amount |-> 100000, currency |-> "USD"]],
     max_transaction_amount |-> [amount |-> 5000, currency |-> "EUR"]]

ScopeW ==
    [type |-> "save_sub_account", expiration_timestamp |-> 1900000000,
     max_cumulative_amount |->
        [unit |-> "week", value |-> 2,
         max_amount |-> [amount |-> 7000, currency |-> "GBP"]],
     max_transaction_amount |-> [amount |-> 300, currency |-> "CHF"]]

CreateParams ==
    {[biller_address |-> "lp123", funds_pull_pre_approval_id |-> id,
      scope |-> ScopeB, description |-> "subscription"] : id \in ApprovalIds}
    \cup {[biller_address |-> "lp456", funds_pull_pre_approval_id |-> id,
           scope |-> ScopeW, description |-> "gym"] : id \in ApprovalIds}

Init ==
    /\ approvals = <<>>
    /\ last = [op |-> "none", n |-> 0]
    /\ versions = <<>>
    /\ evalExc = "none"
    /\ dispatched = [op |-> "none"]
    /\ pc = <<>>
    /\ decision = <<>>
    /\ seen = <<>>
    /\ rowLock = 0
    /\ answer = <<>>

\* a biller's request arrives for a payer and is stored as pending
Incoming(account_id, id) ==
    /\ Len(approvals) < MaxApprovals
    /\ ~exists_for(approvals, account_id, id)
    /\ approvals' = Append(approvals, IncomingApproval(account_id, id))
    /\ last' = [op |-> "incoming", n |-> 1 - last.n, account_id |-> account_id, id |-> id]
    /\ UNCHANGED <<versions, evalExc, dispatched, pc, decision, seen, rowLock, answer>>

Put(id, params) ==
    /\ LET r == approve(approvals, id, params.status)
       IN  /\ approvals' = r.table
           /\ last' = [op |-> "put", n |-> 1 - last.n, id |-> id, params |-> params,
                       response |-> put(id, params, r.exc)]
    /\ UNCHANGED <<versions, evalExc, dispatched, pc, decision, seen, rowLock, answer>>

Post(account_id, params) ==
    /\ \/ Len(approvals) < MaxApprovals
       \/ exists_for(approvals, account_id, params.funds_pull_pre_approval_id)
    /\ LET r == post(approvals, account_id, params)
       IN  /\ approvals' = r.table
           /\ last' = [op |-> "post", n |-> 1 - last.n, account_id |-> account_id, params |-> params,
                       response |-> r.response]
    /\ UNCHANGED <<versions, evalExc, dispatched, pc, decision, seen, rowLock, answer>>

Get(account_id) ==
    /\ last' = [op |-> "get", n |-> 1 - last.n, account_id |-> account_id,
                response |-> get(approvals, account_id)]
    /\ UNCHANGED <<approvals, versions, evalExc, dispatched, pc, decision, seen, rowLock, answer>>

Next ==
    \/ \E a \in Accounts, id \in ApprovalIds : Incoming(a, id)
    \/ \E id \in ApprovalIds, st \in RequestedStatuses : Put(id, [status |-> st])
    \/ \E a \in Accounts, params \in CreateParams : Post(a, params)
    \/ \E a \in Accounts : Get(a)

Spec == Init /\ [][Next]_vars

(***************************************************************************)
(* Properties of the approval workflow                                     *)
(***************************************************************************)
StatusOf(table, id) == table[find(table, id)].status

\* C3: when approve(id, "approved") has succeeded and the next request is
\* approve(id, "rejected"), that request fails with the state-conflict error, is
\* not answered NO_CONTENT, and the approval is still approved.
C3_ApproveThenReject ==
    [][(/\ last.op = "put"
        /\ last.params.status = "approved"
        /\ last.response.code = "NO_CONTENT"
        /\ last'.op = "put"
        /\ last'.id = last.id
        /\ last'.params.status = "rejected")
       => /\ last'.response = Unhandled("InvalidStateTransition")
          /\ last'.response.code # "NO_CONTENT"
          /\ StatusOf(approvals', last.id) = "approved"
          /\ approvals' = approvals]_vars

C3_Witness ==
    /\ last.op = "put"
    /\ last.params.status = "rejected"
    /\ last.response = Unhandled("InvalidStateTransition")
    /\ StatusOf(approvals, last.id) = "approved"
    /\ approvals[find(approvals, last.id)].biller_address = "lp789"

\* C4: an update-status request for an id no approval has is answered NOT_FOUND,
\* whatever the requested status, and leaves the table as it was.
C4_ApproveUnknownId ==
    [][(last'.op = "put" /\ find(approvals, last'.id) = 0)
       => /\ last'.response.code = "NOT_FOUND"
          /\ last'.response.code # "NO_CONTENT"
          /\ approvals' = approvals]_vars

C4_Witness ==
    /\ last.op = "put"
    /\ last.params.status = "approved"
    /\ find(approvals, last.id) = 0
    /\ last.response.code = "NOT_FOUND"
    /\ Len(approvals) > 0

MatchesOf(table, account_id, id) ==
    {i \in 1..Len(table) :
        /\ table[i].account_id = account_id
        /\ table[i].funds_pull_pre_approval_id = id}

\* C5: a create-and-approve request whose (payer, approval id) an approval already
\* has fails with the duplicate error instead of answering OK, and the table,
\* with its one approval of that id for the payer, stays as it was.
C5_DuplicateCreate ==
    [][(/\ last'.op = "post"
        /\ exists_for(approvals, last'.account_id, last'.params.funds_pull_pre_approval_id))
       => /\ last'.response = Unhandled("DuplicateApprovalId")
          /\ last'.response.code # "OK"
          /\ approvals' = approvals
          /\ Cardinality(MatchesOf(approvals', last'.account_id,
                                   last'.params.funds_pull_pre_approval_id)) = 1]_vars

\* the same request twice in a row, the second one refused
C5_Witness ==
    /\ last.op = "post"
    /\ last.response = Unhandled("DuplicateApprovalId")
    /\ \E i \in 1..Len(approvals) :
          /\ approvals[i].account_id = last.account_id
          /\ approvals[i].funds_pull_pre_approval_id = last.params.funds_pull_pre_approval_id
          /\ approvals[i].status = "approved"
          /\ approvals[i].biller_address = last.params.biller_address

\* the approval carries the id and the scope of the request
Carries(approval, account_id, params) ==
    /\ approval.account_id = account_id
    /\ approval.funds_pull_pre_approval_id = params.funds_pull_pre_approval_id
    /\ approval.biller_address = params.biller_address
    /\ approval.funds_pull_pre_approval_type = params.scope.type
    /\ approval.expiration_timestamp = params.scope.expiration_timestamp
    /\ approval.max_cumulative_unit = params.scope.max_cumulative_amount.unit
    /\ approval.max_cumulative_unit_value = params.scope.max_cumulative_amount.value
    /\ approval.max_cumulative_amount = params.scope.max_cumulative_amount.max_amount.amount
    /\ approval.max_cumulative_amount_currency
         = params.scope.max_cumulative_amount.max_amount.currency
    /\ approval.max_transaction_amount = params.scope.max_transaction_amount.amount
    /\ approval.max_transaction_amount_currency = params.scope.max_transaction_amount.currency
    /\ approval.description = params.description

\* the listed object shows the id and the scope of the request
Shows(object, params) ==
    /\ object.funds_pull_pre_approval_id = params.funds_pull_pre_approval_id
    /\ object.biller_address = params.biller_address
    /\ object.scope.type = params.scope.type
    /\ object.scope.expiration_time = params.scope.expiration_timestamp
    /\ object.scope.max_cumulative_amount = params.scope.max_cumulative_amount
    /\ object.scope.max_transaction_amount = params.scope.max_transaction_amount
    /\ object.description = params.description

\* C6: a create-and-approve request with an id the payer does not have yet answers
\* OK and appends exactly one approval, in status approved from the step that
\* stores it, with the id and scope fields of the request; a list request of the
\* payer right after it shows that approval exactly once, approved; and a list
\* request right after a list request of the same account answers the same.
C6_CreateThenList ==
    [][/\ (/\ last'.op = "post"
           /\ ~exists_for(approvals, last'.account_id,
                          last'.params.funds_pull_pre_approval_id))
          => /\ last'.response = [code |-> "OK", body |-> "OK"]
             /\ Len(approvals') = Len(approvals) + 1
             /\ \A i \in 1..Len(approvals) : approvals'[i] = approvals[i]
             /\ approvals'[Len(approvals')].status = "approved"
             /\ Carries(approvals'[Len(approvals')], last'.account_id, last'.params)
       /\ (/\ last.op = "post"
           /\ last.response.code = "OK"
           /\ last'.op = "get"
           /\ last'.account_id = last.account_id)
          => LET listed == last'.response.body.funds_pull_pre_approvals
                 hits == {i \in 1..Len(listed) :
                            listed[i].funds_pull_pre_approval_id
                              = last.params.funds_pull_pre_approval_id}
             IN  /\ last'.response.code = "OK"
                 /\ Cardinality(hits) = 1
                 /\ \A i \in hits : listed[i].status = "approved" /\ Shows(listed[i], last.params)
       /\ (/\ last.op = "get"
           /\ last'.op = "get"
           /\ last'.account_id = last.account_id)
          => last'.response = last.response]_vars

\* Scenario B, listed after other approvals of the payer were stored
C6_Witness ==
    /\ last.op = "get"
    /\ last.account_id = 42
    /\ Len(last.response.body.funds_pull_pre_approvals) >= 2
    /\ \E i \in 1..Len(last.response.body.funds_pull_pre_approvals) :
          LET o == last.response.body.funds_pull_pre_approvals[i]
          IN  /\ o.funds_pull_pre_approval_id = "appr-1"
              /\ o.status = "approved"
              /\ o.scope.max_cumulative_amount.max_amount.amount = 100000
              /\ o.scope.max_transaction_amount.amount = 5000

\* C9: no step removes or replaces an approval of the table, and no step brings an
\* approval whose status is not pending back to pending.
C9_NeverBackToPending ==
    [][/\ Len(approvals') >= Len(approvals)
       /\ \A i \in 1..Len(approvals) :
            /\ approvals'[i].account_id = approvals[i].account_id
            /\ approvals'[i].funds_pull_pre_approval_id = approvals[i].funds_pull_pre_approval_id
            /\ approvals[i].status # "pending" => approvals'[i].status # "pending"]_vars

\* a request to set a rejected approval back to pending has been made
C9_Witness ==
    /\ last.op = "put"
    /\ last.params.status = "pending"
    /\ find(approvals, last.id) # 0
    /\ StatusOf(approvals, last.id) = "rejected"
    /\ \E i \in 1..Len(approvals) : approvals[i].status = "approved"

(***************************************************************************)
(* routes/offchain.py: OffchainV2View, the inbound off-chain endpoint      *)
(***************************************************************************)
X_REQUEST_ID == "X-Request-ID"
X_REQUEST_SENDER_ADDRESS == "X-Request-Sender-Address"

\* request.headers.get(name)
headers_get(headers, name) ==
    IF name \in DOMAIN headers THEN Some(headers[name]) ELSE None

\* dispatch_request answering 200 whatever code the engine gave
dispatch_request_always_ok(headers, data, engine_result) ==
    LET x_request_id == headers_get(headers, X_REQUEST_ID)
        sender_address == headers_get(headers, X_REQUEST_SENDER_ADDRESS)
    IN  [call |-> <<sender_address, data>>,
         response |-> [body |-> engine_result[2], code |-> 200,
                       headers |-> [h \in {X_REQUEST_ID} |-> x_request_id]]]

\* OffchainV2View.dispatch_request; engine_result is the (code, response) pair
\* process_inbound_command answers the call with
dispatch_request(headers, data, engine_result) ==
    LET x_request_id == headers_get(headers, X_REQUEST_ID)
        sender_address == headers_get(headers, X_REQUEST_SENDER_ADDRESS)
        request_body == data
        call == <<sender_address, request_body>>
        code == engine_result[1]
        response == engine_result[2]
    IN  [call |-> call,
         response |-> [body |-> response, code |-> code,
                       headers |-> [h \in {X_REQUEST_ID} |-> x_request_id]]]

RequestIds == {"req-1", "req-2"}
SenderAddresses == {"tdm1vasp", "tdm1peer"}
Bodies == {<<>>, <<123, 125>>, <<0, 255, 7>>}

RequestHeaders ==
    UNION {[names -> RequestIds \cup SenderAddresses] :
              names \in SUBSET {X_REQUEST_ID, X_REQUEST_SENDER_ADDRESS}}

EngineResults == {200, 400, 500} \X {<<>>, <<111, 107>>, <<101>>}

InitDispatch ==
    /\ dispatched = [op |-> "none"]
    /\ approvals = <<>>
    /\ last = [op |-> "none", n |-> 0]
    /\ versions = <<>>
    /\ evalExc = "none"
    /\ pc = <<>>
    /\ decision = <<>>
    /\ seen = <<>>
    /\ rowLock = 0
    /\ answer = <<>>

\* one inbound request, the engine answering the call with any (code, response)
Dispatch(headers, data, engine_result) ==
    /\ LET r == dispatch_request(headers, data, engine_result)
       IN  dispatched' = [op |-> "dispatch",
                          headers |-> headers, data |-> data,
                          call |-> r.call,
                          engine_result |-> engine_result,
                          response |-> r.response]
    /\ UNCHANGED <<approvals, last, versions, evalExc, pc, decision, seen, rowLock, answer>>

NextDispatch ==
    \E headers \in RequestHeaders, data \in Bodies, engine_result \in EngineResults :
        Dispatch(headers, data, engine_result)

SpecDispatch == InitDispatch /\ [][NextDispatch]_vars

\* C7: the engine is called with the sender address header and the request body
\* as they arrived, and the response carries the body and the status code the
\* engine answered with and the X-Request-ID of the request.
C7_DispatchPassThrough ==
    dispatched.op = "dispatch" =>
        /\ dispatched.call[2] = dispatched.data
        /\ dispatched.call[1] =
             (IF X_REQUEST_SENDER_ADDRESS \in DOMAIN dispatched.headers
              THEN Some(dispatched.headers[X_REQUEST_SENDER_ADDRESS]) ELSE None)
        /\ dispatched.response.code = dispatched.engine_result[1]
        /\ dispatched.response.body = dispatched.engine_result[2]
        /\ DOMAIN dispatched.response.headers = {X_REQUEST_ID}
        /\ dispatched.response.headers[X_REQUEST_ID] =
             (IF X_REQUEST_ID \in DOMAIN dispatched.headers
              THEN Some(dispatched.headers[X_REQUEST_ID]) ELSE None)

C7_Witness ==
    /\ dispatched.op = "dispatch"
    /\ dispatched.data = <<0, 255, 7>>
    /\ dispatched.headers = [h \in {X_REQUEST_ID, X_REQUEST_SENDER_ADDRESS} |->
                                IF h = X_REQUEST_ID THEN "req-2" ELSE "tdm1peer"]
    /\ dispatched.engine_result = <<400, <<101>>>>
    /\ dispatched.response.code = 400
    /\ dispatched.response.headers[X_REQUEST_ID] = Some("req-2")

(***************************************************************************)
(* Concurrent update-status requests on one pending approval               *)
(***************************************************************************)
Callers == 1..NumCallers

TheId == "appr-1"

InitConc ==
    /\ approvals = <<IncomingApproval(42, TheId)>>
    /\ pc = [p \in Callers |-> "begin"]
    /\ decision \in [Callers -> {"approved", "rejected"}]
    /\ seen = [p \in Callers |-> "unread"]
    /\ answer = [p \in Callers |-> [code |-> "pending", body |-> "none"]]
    /\ rowLock = 0
    /\ last = [op |-> "none", n |-> 0]
    /\ versions = <<>>
    /\ evalExc = "none"
    /\ dispatched = [op |-> "none"]

\* approve opens its transaction on the row of the approval
ConcBegin(p) ==
    /\ pc[p] = "begin"
    /\ rowLock = 0
    /\ rowLock' = p
    /\ pc' = [pc EXCEPT ![p] = "read"]
    /\ UNCHANGED <<approvals, decision, seen, answer, last, versions, evalExc, dispatched>>

\* approve looks the approval up
ConcRead(p) ==
    /\ pc[p] = "read"
    /\ seen' = [seen EXCEPT ![p] =
                  IF find(approvals, TheId) = 0 THEN "absent" ELSE StatusOf(approvals, TheId)]
    /\ pc' = [pc EXCEPT ![p] = "write"]
    /\ UNCHANGED <<approvals, decision, rowLock, answer, last, versions, evalExc, dispatched>>

\* approve applies the transition to the approval it read as pending, commits,
\* and put answers the request
ConcWrite(p) ==
    /\ pc[p] = "write"
    /\ LET exc == IF seen[p] = "absent" THEN "FundsPullPreApprovalCommandNotFound"
                  ELSE IF decision[p] \notin {"approved", "rejected"} THEN "InvalidDecision"
                  ELSE IF seen[p] # "pending" THEN "InvalidStateTransition"
                  ELSE "none"
       IN  /\ approvals' = IF exc = "none"
                           THEN [approvals EXCEPT ![find(approvals, TheId)].status = decision[p]]
                           ELSE approvals
           /\ answer' = [answer EXCEPT ![p] = put(TheId, [status |-> decision[p]], exc)]
    /\ rowLock' = 0
    /\ pc' = [pc EXCEPT ![p] = "done"]
    /\ UNCHANGED <<decision, seen, last, versions, evalExc, dispatched>>

NextConc == \E p \in Callers : ConcBegin(p) \/ ConcRead(p) \/ ConcWrite(p)

SpecConc == InitConc /\ [][NextConc]_vars

Succeeded == {p \in Callers : answer[p].code = "NO_CONTENT"}
Finished == {p \in Callers : pc[p] = "done"}

====
